---- MODULE Spec2Model ----
(***************************************************************************)
(* Session coordinator (AuthProvider, components/auth/AuthContext.tsx)     *)
(* and auth service (SupabaseAuthService) of inspectrixV4, as state        *)
(* machines over the hosted backend they call.                             *)
(*                                                                         *)
(* A backend session is represented by the id of its user; NoUser stands   *)
(* for the null session (and for a session without a user, which the code  *)
(* treats alike through `session?.user`).                                  *)
(***************************************************************************)
EXTENDS Integers, Sequences, FiniteSets, TLC

\* ---------------------------------------------------------------- bounds
MaxQueue == 2      \* auth-state notifications emitted and not yet delivered
MaxHandlers == 2   \* handleAuthStateChange calls awaiting their profile query
MaxEvents == 1     \* session changes the backend makes on its own
MaxCalls == 1      \* coordinator actions started by the UI
MaxReported == 3   \* session transitions reported to the service's listener

\* ---------------------------------------------------------------- values
Users == {"u1", "u2"}
NoUser == "null"
Names == {"n1", "n2"}
SignUpNames == {"n1"}
Missing == "missing"
NoError == "null"
Nothing == "nothing"

\* message of an AuthError / PostgrestError the backend returns
BackendMsg == "backend error"

SignInUnexpected == "An unexpected error occurred during sign in"
SignUpUnexpected == "An unexpected error occurred during registration"
UpdateUnexpected == "An unexpected error occurred while updating profile"
NoUserLoggedIn == "No user logged in"

NoProfile == [id |-> NoUser, full_name |-> "null"]

VARIABLES
  state,            \* AuthState: user, profile, loading, initialized
  mountPc,          \* position of the mount effect
  getSessionP,      \* the promise of the initial supabase.auth.getSession()
  getSessionCalls,  \* number of getSession requests issued
  subscribed,       \* the onAuthStateChange callback is registered
  notifQ,           \* notifications the backend emitted, oldest first
  handlers,         \* handleAuthStateChange calls suspended in getUserProfile
  backendSession,   \* the session the backend currently holds
  accounts,         \* identities the backend knows
  profiles,         \* table "profiles": user id -> full_name, or Missing
  signInPc, signInUser,
  signUpPc, signUpUser, signUpName,
  signOutPc,
  updPc, updUser, updName,
  ret,              \* value the most recently settled action resolved to
  unhandled,        \* a promise rejected without a handler
  lastDelivered,    \* session most recently passed to handleAuthStateChange
  delivered,        \* users of all sessions passed to handleAuthStateChange
  events,           \* backend-initiated session changes so far
  calls,            \* coordinator actions started so far
  userProfiles,     \* table "user_profiles": user id -> first_name, or Missing
  userEmails,       \* table "user_profiles": user id -> email column
  authEmails,       \* the backend's identities: user id -> email
  svc,              \* the service operation last called and what it resolved to
  svcSub,           \* the service's onAuthStateChange listener: none, subscribed, unsubscribed
  svcPending,       \* listener invocations suspended in getUserProfile
  cbLog,            \* invocations of the caller's callback, oldest first
  reported,         \* session transitions the backend reported to the listener
  ui                \* AuthScreen: the screen shown and the form last submitted

coordVars == <<state, mountPc, getSessionP, getSessionCalls, subscribed, notifQ,
               handlers, backendSession, accounts, profiles, signInPc,
               signInUser,
               signUpPc, signUpUser, signUpName, signOutPc, updPc, updUser,
               updName, ret, unhandled, lastDelivered, delivered, events, calls>>

mountVars == <<mountPc, getSessionP, getSessionCalls, subscribed>>
signInVars == <<signInPc, signInUser>>
signUpVars == <<signUpPc, signUpUser, signUpName>>
updVars == <<updPc, updUser, updName>>
actionVars == <<signInVars, signUpVars, signOutPc, updVars, ret, calls>>
ghostVars == <<lastDelivered, delivered>>

svcTables == <<userProfiles, userEmails, authEmails>>
subVars == <<svcSub, svcPending, cbLog, reported>>
svcVars == <<svcTables, svc, subVars>>

\* everything outside the coordinator
outerVars == <<svcVars, ui>>
vars == <<coordVars, svcVars, ui>>

\* ------------------------------------------------------- coordinator state
InitialState ==
  [user |-> NoUser, profile |-> NoProfile, loading |-> TRUE, initialized |-> FALSE]

\* faulty variant: the no-session branch leaves the coordinator loading
SignedOutStateLoading ==
  [user |-> NoUser, profile |-> NoProfile, loading |-> TRUE, initialized |-> TRUE]

SignedOutState ==
  [user |-> NoUser, profile |-> NoProfile, loading |-> FALSE, initialized |-> TRUE]

SignedInState(u, p) ==
  [user |-> u, profile |-> p, loading |-> FALSE, initialized |-> TRUE]

\* faulty variant: setting loading builds a fresh state that is not initialized
SetLoadingFresh(s, b) == [s EXCEPT !.loading = b, !.initialized = FALSE]
\* setState((prev) => ({ ...prev, loading: b }))
SetLoading(s, b) == [s EXCEPT !.loading = b]

Row(u) == [id |-> u, full_name |-> profiles[u]]

\* getUserProfile(userId): the row, or null when the query returns an error,
\* finds no row, or throws
GetUserProfileResults(u) ==
  {NoProfile} \cup (IF profiles[u] # Missing THEN {Row(u)} ELSE {})

Remove(seq, i) == SubSeq(seq, 1, i - 1) \o SubSeq(seq, i + 1, Len(seq))

\* an email address, as its sequence of characters
EmailAUpper == <<"A", "@", "b", ".", "c">>
EmailAPadded == <<" ", "a", "@", "b", ".", "c">>
EmailDUpper == <<"D", "@", "b", ".", "c">>
NoEmail == <<>>
NoPassword == <<>>
Passwords == {NoPassword, <<"S", "e", "c", "r", "e", "t", "1">>}

\* String.prototype.trim and toLowerCase
RECURSIVE TrimStart(_)
TrimStart(e) == IF e # <<>> /\ Head(e) = " " THEN TrimStart(Tail(e)) ELSE e
RECURSIVE TrimEnd(_)
TrimEnd(e) ==
  IF e # <<>> /\ e[Len(e)] = " " THEN TrimEnd(SubSeq(e, 1, Len(e) - 1)) ELSE e
Trim(e) == TrimEnd(TrimStart(e))
LowerChar(c) == CASE c = "A" -> "a" [] c = "D" -> "d" [] OTHER -> c
ToLowerCase(e) == [i \in 1..Len(e) |-> LowerChar(e[i])]

\* the account u1 was registered as "A@b.c": the backend keeps an identity's
\* address in lower case, the user_profiles row keeps it as it was submitted
InitialEmails == [u \in Users |-> IF u = "u1" THEN EmailAUpper ELSE NoEmail]
InitialAuthEmails == [u \in Users |-> ToLowerCase(InitialEmails[u])]
InitialProfiles == [u \in Users |-> IF u = "u1" THEN "n1" ELSE Missing]

CoordInit ==
  /\ state = InitialState
  /\ mountPc = "init"
  /\ getSessionP = "none"
  /\ getSessionCalls = 0
  /\ subscribed = FALSE
  /\ notifQ = <<>>
  /\ handlers = <<>>
  /\ accounts = {"u1"}
  /\ backendSession \in accounts \cup {NoUser}
  /\ profiles = InitialProfiles
  /\ signInPc = "idle" /\ signInUser = NoUser
  /\ signUpPc = "idle" /\ signUpUser = NoUser /\ signUpName = "null"
  /\ signOutPc = "idle"
  /\ updPc = "idle" /\ updUser = NoUser /\ updName = "null"
  /\ ret = [op |-> "none", error |-> NoError, user |-> NoUser]
  /\ unhandled = FALSE
  /\ lastDelivered = Nothing
  /\ delivered = {}
  /\ events = 0
  /\ calls = 0

SvcInit ==
  /\ userProfiles = InitialProfiles
  /\ userEmails = InitialEmails
  /\ authEmails = InitialAuthEmails
  /\ svc = [op |-> "none"]
  /\ svcSub = "none"
  /\ svcPending = <<>>
  /\ cbLog = <<>>
  /\ reported = 0

\* a form of the login and register screens; text is a sequence of characters
Form(email, password, confirm, name, name2, company, role) ==
  [email |-> email, password |-> password, confirm |-> confirm, name |-> name,
   name2 |-> name2, company |-> company, role |-> role]

\* AuthScreen starts in mode "login"; nothing has been submitted
UiInit ==
  ui = [mode |-> "login", screen |-> "none",
        form |-> Form(<<>>, <<>>, <<>>, <<>>, <<>>, <<>>, <<>>), called |-> FALSE]

Init == CoordInit /\ SvcInit /\ UiInit

\* ------------------------------------------------------------ mount effect
\* faulty variant: the effect registers the subscription before it requests the session
MountGetSessionSubscribed ==
  /\ mountPc = "init"
  /\ mountPc' = "fetchRequested"
  /\ getSessionP' = "pending"
  /\ getSessionCalls' = getSessionCalls + 1
  /\ subscribed' = TRUE
  /\ UNCHANGED <<outerVars, state, notifQ, handlers, backendSession, accounts,
                 profiles, actionVars, unhandled, ghostVars, events>>

\* useEffect, first statement: supabase.auth.getSession().then(...)
MountGetSession ==
  /\ mountPc = "init"
  /\ mountPc' = "fetchRequested"
  /\ getSessionP' = "pending"
  /\ getSessionCalls' = getSessionCalls + 1
  /\ UNCHANGED <<outerVars, state, subscribed, notifQ, handlers, backendSession,
                 accounts, profiles, actionVars, unhandled, ghostVars,
                 events>>

\* useEffect, second statement: supabase.auth.onAuthStateChange(callback)
MountSubscribe ==
  /\ mountPc = "fetchRequested"
  /\ mountPc' = "mounted"
  /\ subscribed' = TRUE
  /\ UNCHANGED <<outerVars, state, getSessionP, getSessionCalls, notifQ,
                 handlers, backendSession, accounts, profiles, actionVars,
                 unhandled, ghostVars, events>>

\* handleAuthStateChange(session), up to its first suspension: a session with
\* a user suspends in getUserProfile, a null session sets the state at once
HandleAuthStateChange(session) ==
  /\ lastDelivered' = session
  /\ delivered' = delivered \cup ({session} \ {NoUser})
  /\ IF session # NoUser
       THEN /\ Len(handlers) < MaxHandlers
            /\ handlers' = Append(handlers, session)
            /\ state' = state
       ELSE /\ handlers' = handlers
            /\ state' = SignedOutState

\* the getSession promise resolves: .then(({data: {session}}) => handle(session))
GetSessionResolve ==
  /\ mountPc = "mounted"
  /\ getSessionP = "pending"
  /\ getSessionP' = "settled"
  /\ HandleAuthStateChange(backendSession)
  /\ UNCHANGED <<outerVars, mountPc, getSessionCalls, subscribed, notifQ,
                 backendSession, accounts, profiles, actionVars, unhandled,
                 events>>

\* the getSession promise rejects: the chain has no catch handler
GetSessionReject ==
  /\ mountPc = "mounted"
  /\ getSessionP = "pending"
  /\ getSessionP' = "settled"
  /\ unhandled' = TRUE
  /\ UNCHANGED <<outerVars, state, mountPc, getSessionCalls, subscribed, notifQ,
                 handlers, backendSession, accounts, profiles, actionVars,
                 ghostVars, events>>

\* the subscription callback runs for the oldest undelivered notification
DeliverNotification ==
  /\ subscribed
  /\ notifQ # <<>>
  /\ notifQ' = Tail(notifQ)
  /\ HandleAuthStateChange(Head(notifQ))
  /\ UNCHANGED <<outerVars, mountVars, backendSession, accounts, profiles,
                 actionVars, unhandled, events>>

\* handleAuthStateChange resumes after getUserProfile: setState({user, profile, ...})
ProfileFetched ==
  \E i \in 1..Len(handlers) :
    \E p \in GetUserProfileResults(handlers[i]) :
      /\ state' = SignedInState(handlers[i], p)
      /\ handlers' = Remove(handlers, i)
      /\ UNCHANGED <<outerVars, mountVars, notifQ, backendSession, accounts,
                     profiles, actionVars, unhandled, ghostVars, events>>

\* the backend changes the session on its own (token refresh, expiry, another
\* client) and notifies the subscriber
BackendEvent ==
  \E s \in accounts \cup {NoUser} :
    /\ mountPc = "mounted"
    /\ events < MaxEvents
    /\ Len(notifQ) < MaxQueue
    /\ events' = events + 1
    /\ backendSession' = s
    /\ notifQ' = Append(notifQ, s)
    /\ UNCHANGED <<outerVars, state, mountVars, handlers, accounts, profiles,
                   actionVars, unhandled, ghostVars>>

\* ---------------------------------------------------------------- signIn
\* state left by each exit path of signIn
\* faulty variant: signIn adopts the signed-in user itself instead of leaving it to
\* the auth-state notification
SignInOnSuccessAdopts(s, u) == [s EXCEPT !.user = u, !.loading = FALSE]
SignInOnSuccess(s, u) == s
\* faulty variant: the error path returns without resetting loading
SignInOnErrorKeepsLoading(s) == s
SignInOnError(s) == SetLoading(s, FALSE)
SignInOnThrow(s) == SetLoading(s, FALSE)

SignInResult(out) ==
  [op |-> "signIn",
   error |-> CASE out = "ok" -> NoError
               [] out = "error" -> BackendMsg
               [] out = "throw" -> SignInUnexpected,
   user |-> NoUser]

\* signIn(credentials) up to the await of signInWithPassword; the coordinator
\* does not look at loading before it starts
SignInBegin(u) ==
  /\ mountPc = "mounted"
  /\ signInPc = "idle"
  /\ state' = SetLoading(state, TRUE)
  /\ signInPc' = "awaiting"
  /\ signInUser' = u
  /\ UNCHANGED <<svcVars, mountVars, notifQ, handlers, backendSession,
                 accounts, profiles, signUpVars, signOutPc, updVars, ret,
                 unhandled, ghostVars, events>>

\* signIn called by a consumer of the context
SignInCall ==
  \E u \in Users :
    /\ calls < MaxCalls
    /\ calls' = calls + 1
    /\ SignInBegin(u)
    /\ UNCHANGED ui

\* the backend answers signInWithPassword: on success it holds the session and
\* notifies the subscriber
SignInBackend ==
  \E out \in {"ok", "error", "throw"} :
    /\ signInPc = "awaiting"
    /\ signInPc' = out
    /\ signInUser' = signInUser
    /\ IF out = "ok"
         THEN /\ signInUser \in accounts
              /\ Len(notifQ) < MaxQueue
              /\ backendSession' = signInUser
              /\ notifQ' = Append(notifQ, signInUser)
         ELSE UNCHANGED <<backendSession, notifQ>>
    /\ UNCHANGED <<outerVars, state, mountVars, handlers, accounts, profiles,
                   signUpVars, signOutPc, updVars, ret, calls, unhandled,
                   ghostVars, events>>

\* signIn resumes after the await and returns
SignInResume ==
  /\ signInPc \in {"ok", "error", "throw"}
  /\ signInPc' = "idle"
  /\ state' = CASE signInPc = "ok" -> SignInOnSuccess(state, signInUser)
                [] signInPc = "error" -> SignInOnError(state)
                [] signInPc = "throw" -> SignInOnThrow(state)
  /\ ret' = SignInResult(signInPc)
  /\ signInUser' = NoUser
  /\ UNCHANGED <<outerVars, mountVars, notifQ, handlers, backendSession,
                 accounts, profiles, signUpVars, signOutPc, updVars, calls,
                 unhandled, ghostVars, events>>

\* --------------------------------------------------------------- signOut
SignOutOnReturn(s) == s
SignOutOnThrow(s) == SetLoading(s, FALSE)

SignOutCall ==
  /\ mountPc = "mounted"
  /\ signOutPc = "idle"
  /\ calls < MaxCalls
  /\ calls' = calls + 1
  /\ state' = SetLoading(state, TRUE)
  /\ signOutPc' = "awaiting"
  /\ UNCHANGED <<outerVars, mountVars, notifQ, handlers, backendSession,
                 accounts, profiles, signInVars, signUpVars, updVars, ret,
                 unhandled, ghostVars, events>>

\* the backend answers auth.signOut(): on success it drops the session and
\* notifies the subscriber; it may also return {error} or throw
SignOutBackend ==
  \E out \in {"ok", "error", "throw"} :
    /\ signOutPc = "awaiting"
    /\ signOutPc' = out
    /\ IF out = "ok"
         THEN /\ Len(notifQ) < MaxQueue
              /\ backendSession' = NoUser
              /\ notifQ' = Append(notifQ, NoUser)
         ELSE UNCHANGED <<backendSession, notifQ>>
    /\ UNCHANGED <<outerVars, state, mountVars, handlers, accounts, profiles,
                   signInVars, signUpVars, updVars, ret, calls, unhandled,
                   ghostVars, events>>

\* signOut resumes: the returned {error} is not read; only a throw is caught
SignOutResume ==
  /\ signOutPc \in {"ok", "error", "throw"}
  /\ signOutPc' = "idle"
  /\ state' = IF signOutPc = "throw" THEN SignOutOnThrow(state)
                                     ELSE SignOutOnReturn(state)
  /\ ret' = [op |-> "signOut", error |-> NoError, user |-> NoUser]
  /\ UNCHANGED <<outerVars, mountVars, notifQ, handlers, backendSession,
                 accounts, profiles, signInVars, signUpVars, updVars, calls,
                 unhandled, ghostVars, events>>

\* ---------------------------------------------------------------- signUp
SignUpOnError(s) == SetLoading(s, FALSE)
SignUpOnThrow(s) == SetLoading(s, FALSE)
\* faulty variant: the success exit of signUp also resets the user
SignUpOnDoneClearsUser(s) == [s EXCEPT !.loading = FALSE, !.user = NoUser]
SignUpOnDone(s) == SetLoading(s, FALSE)

\* signUp(credentials) up to the await of auth.signUp
SignUpBegin(u, n) ==
  /\ mountPc = "mounted"
  /\ signUpPc = "idle"
  /\ state' = SetLoading(state, TRUE)
  /\ signUpPc' = "awaiting"
  /\ signUpUser' = u
  /\ signUpName' = n
  /\ UNCHANGED <<svcVars, mountVars, notifQ, handlers, backendSession,
                 accounts, profiles, signInVars, signOutPc, updVars, ret,
                 unhandled, ghostVars, events>>

\* signUp called by a consumer of the context
SignUpCall ==
  \E u \in Users, n \in SignUpNames :
    /\ calls < MaxCalls
    /\ calls' = calls + 1
    /\ SignUpBegin(u, n)
    /\ UNCHANGED ui

\* the backend answers auth.signUp: an error, a throw, a new identity that is
\* signed in at once (session issued, subscriber notified), a new identity
\* awaiting confirmation (no session), or a response without a user
SignUpBackend ==
  \E out \in {"error", "throw", "okSession", "okNoSession", "okNoUser"} :
    /\ signUpPc = "awaiting"
    /\ signUpPc' = out
    /\ out \in {"okSession", "okNoSession"} => signUpUser \notin accounts
    /\ accounts' = IF out \in {"okSession", "okNoSession"}
                     THEN accounts \cup {signUpUser} ELSE accounts
    /\ IF out = "okSession"
         THEN /\ Len(notifQ) < MaxQueue
              /\ backendSession' = signUpUser
              /\ notifQ' = Append(notifQ, signUpUser)
         ELSE UNCHANGED <<backendSession, notifQ>>
    /\ UNCHANGED <<outerVars, state, mountVars, handlers, profiles, signInVars,
                   signUpUser, signUpName, signOutPc, updVars, ret, calls,
                   unhandled, ghostVars, events>>

\* signUp resumes after auth.signUp: it returns, or (data.user present) goes
\* on to createUserProfile and suspends in the insert
SignUpResume ==
  /\ signUpPc \in {"error", "throw", "okSession", "okNoSession", "okNoUser"}
  /\ IF signUpPc \in {"okSession", "okNoSession"}
       THEN /\ signUpPc' = "awaitInsert"
            /\ UNCHANGED <<state, ret, signUpUser, signUpName>>
       ELSE /\ signUpPc' = "idle"
            /\ signUpUser' = NoUser
            /\ signUpName' = "null"
            /\ state' = CASE signUpPc = "error" -> SignUpOnError(state)
                          [] signUpPc = "throw" -> SignUpOnThrow(state)
                          [] signUpPc = "okNoUser" -> SignUpOnDone(state)
            /\ ret' = [op |-> "signUp",
                       error |-> CASE signUpPc = "error" -> BackendMsg
                                   [] signUpPc = "throw" -> SignUpUnexpected
                                   [] signUpPc = "okNoUser" -> NoError,
                       user |-> signUpUser]
  /\ UNCHANGED <<outerVars, mountVars, notifQ, handlers, backendSession,
                 accounts, profiles, signInVars, signOutPc, updVars, calls,
                 unhandled, ghostVars, events>>

\* the backend answers the insert into "profiles" (createUserProfile): the row
\* is stored, or the insert returns an error, or throws
CreateProfileBackend ==
  \E out \in {"insertOk", "insertError", "insertThrow"} :
    /\ signUpPc = "awaitInsert"
    /\ signUpPc' = out
    /\ IF out = "insertOk"
         THEN /\ profiles[signUpUser] = Missing
              /\ profiles' = [profiles EXCEPT ![signUpUser] = signUpName]
         ELSE UNCHANGED profiles
    /\ UNCHANGED <<outerVars, accounts, state, mountVars, notifQ, handlers,
                   backendSession, signInVars, signUpUser, signUpName,
                   signOutPc, updVars, ret, calls, unhandled, ghostVars,
                   events>>

\* signUp resumes after createUserProfile: createUserProfile rethrows a failed
\* insert, which signUp's catch turns into its generic error
SignUpInsertResume ==
  /\ signUpPc \in {"insertOk", "insertError", "insertThrow"}
  /\ signUpPc' = "idle"
  /\ signUpUser' = NoUser
  /\ signUpName' = "null"
  /\ state' = IF signUpPc = "insertOk" THEN SignUpOnDone(state)
                                       ELSE SignUpOnThrow(state)
  /\ ret' = [op |-> IF signUpPc = "insertOk" THEN "signUp" ELSE "signUpInsertFailed",
             error |-> IF signUpPc = "insertOk" THEN NoError ELSE SignUpUnexpected,
             user |-> signUpUser]
  /\ UNCHANGED <<outerVars, mountVars, notifQ, handlers, backendSession,
                 accounts, profiles, signInVars, signOutPc, updVars, calls,
                 unhandled, ghostVars, events>>

\* ---------------------------------------------------------- updateProfile
\* profile the state holds after a successful update: the re-read row
UpdateProfileApply(s, p) == [s EXCEPT !.profile = p]
\* faulty variant: a rejected update drops the profile held in the state
UpdateProfileOnErrorClears(s) == [s EXCEPT !.profile = NoProfile]
\* the returns on error and in the catch block set no state
UpdateProfileOnError(s) == s

\* updateProfile(updates) up to the await of the update query; without a user
\* in the state it returns at once
UpdateProfileCall ==
  \E n \in Names :
    /\ mountPc = "mounted"
    /\ updPc = "idle"
    /\ calls < MaxCalls
    /\ calls' = calls + 1
    /\ IF state.user = NoUser
         THEN /\ ret' = [op |-> "updateProfile", error |-> NoUserLoggedIn,
                         user |-> NoUser]
              /\ UNCHANGED updVars
         ELSE /\ updPc' = "awaiting"
              /\ updUser' = state.user
              /\ updName' = n
              /\ ret' = ret
    /\ UNCHANGED <<outerVars, state, mountVars, notifQ, handlers,
                   backendSession, accounts, profiles, signInVars, signUpVars,
                   signOutPc, unhandled, ghostVars, events>>

\* the backend answers the update of "profiles" where id = state.user.id
UpdateProfileBackend ==
  \E out \in {"ok", "error", "throw"} :
    /\ updPc = "awaiting"
    /\ updPc' = out
    /\ profiles' = IF out = "ok" /\ profiles[updUser] # Missing
                     THEN [profiles EXCEPT ![updUser] = updName]
                     ELSE profiles
    /\ UNCHANGED <<outerVars, accounts, state, mountVars, notifQ, handlers,
                   backendSession, signInVars, signUpVars, signOutPc, updUser,
                   updName, ret, calls, unhandled, ghostVars, events>>

\* updateProfile resumes after the update: it returns the error, or suspends
\* in getUserProfile to re-read the row
UpdateProfileResume ==
  /\ updPc \in {"ok", "error", "throw"}
  /\ IF updPc = "ok"
       THEN /\ updPc' = "awaitFetch"
            /\ UNCHANGED <<updUser, updName, ret>>
       ELSE /\ updPc' = "idle"
            /\ updUser' = NoUser
            /\ updName' = "null"
            /\ ret' = [op |-> "updateProfile",
                       error |-> IF updPc = "error" THEN BackendMsg
                                                    ELSE UpdateUnexpected,
                       user |-> NoUser]
  /\ state' = IF updPc = "ok" THEN state ELSE UpdateProfileOnError(state)
  /\ UNCHANGED <<outerVars, mountVars, notifQ, handlers, backendSession,
                 accounts, profiles, signInVars, signUpVars, signOutPc, calls,
                 unhandled, ghostVars, events>>

\* updateProfile resumes after getUserProfile: setState(prev => {...prev, profile})
UpdateProfileFetched ==
  /\ updPc = "awaitFetch"
  /\ \E p \in GetUserProfileResults(updUser) :
       state' = UpdateProfileApply(state, p)
  /\ updPc' = "idle"
  /\ updUser' = NoUser
  /\ updName' = "null"
  /\ ret' = [op |-> "updateProfile", error |-> NoError, user |-> NoUser]
  /\ UNCHANGED <<outerVars, mountVars, notifQ, handlers, backendSession,
                 accounts, profiles, signInVars, signUpVars, signOutPc, calls,
                 unhandled, ghostVars, events>>

Next ==
  \/ MountGetSession
  \/ MountSubscribe
  \/ GetSessionResolve
  \/ GetSessionReject
  \/ DeliverNotification
  \/ ProfileFetched
  \/ BackendEvent
  \/ SignInCall
  \/ SignInBackend
  \/ SignInResume
  \/ SignOutCall
  \/ SignOutBackend
  \/ SignOutResume
  \/ SignUpCall
  \/ SignUpBackend
  \/ SignUpResume
  \/ CreateProfileBackend
  \/ SignUpInsertResume
  \/ UpdateProfileCall
  \/ UpdateProfileBackend
  \/ UpdateProfileResume
  \/ UpdateProfileFetched

Spec == Init /\ [][Next]_vars

\* ============================================================ auth service
\* SupabaseAuthService: every operation is one asynchronous method; the
\* answers of the backend calls it makes are drawn here, in call order.

\* messages carried by a thrown error (an Error may have an empty message)
ThrowMsgs == {"", "Network request failed"}

Throws == {[kind |-> "throw", msg |-> m] : m \in ThrowMsgs}
Errs == {[kind |-> "error", msg |-> BackendMsg]}
Oks == {[kind |-> "ok", msg |-> ""]}
Outcome(k) == [kind |-> k, msg |-> ""]
\* answers of a backend call that yields {data, error}
CallOutcomes == Throws \cup Errs \cup Oks

Absent == "undefined"
NoData == [none |-> TRUE]
TokenOf(u) == IF u = "u1" THEN "token-u1" ELSE "token-u2"

\* AuthResult<T>, with two observations about the call that produced it:
\* threw (a backend call threw while it ran), rejected (the promise rejected)
Result(ok, data, err, code, threw) ==
  [success |-> ok, data |-> data, error |-> err, errorCode |-> code,
   threw |-> threw, rejected |-> FALSE]

Ok(data, threw) == Result(TRUE, data, Absent, Absent, threw)
\* faulty variant: a failure result without its error message
FailTNoError(msg, threw) == Result(FALSE, NoData, Absent, Absent, threw)
FailT(msg, threw) == Result(FALSE, NoData, msg, Absent, threw)
Fail(msg) == FailT(msg, FALSE)
FailCode(msg, code) == Result(FALSE, NoData, msg, code, FALSE)

\* JavaScript's  msg || fallback  on strings
OrElse(msg, fallback) == IF msg = "" THEN fallback ELSE msg

\* faulty variant: the catch block reports error.message without its fallback
CaughtNoFallback(msg, fallback) == FailT(msg, TRUE)
\* catch (error) { return {success: false, error: error.message || fallback} }
Caught(msg, fallback) == FailT(OrElse(msg, fallback), TRUE)

\* the User built from a row of user_profiles
\* faulty variant: the User is built without the row's email
UserOfNoEmail(tbl, em, u) == [id |-> u, email |-> NoEmail, firstName |-> tbl[u]]
UserOf(tbl, em, u) == [id |-> u, email |-> em[u], firstName |-> tbl[u]]

AuthSessionOf(user, token) == [user |-> user, accessToken |-> token]

\* answers of  from("user_profiles").select(...).eq("id", u).single()
QueryOutcomes(tbl, u) ==
  Throws \cup Errs \cup {Outcome("empty")}
    \cup (IF tbl[u] # Missing THEN Oks ELSE {})

\* faulty variant: an answer without a row still yields a User
SvcGetUserProfileLenient(tbl, em, u, q) ==
  CASE q.kind = "throw" -> Caught(q.msg, "Failed to get user profile")
    [] OTHER -> Ok(UserOf(tbl, em, u), FALSE)
\* private getUserProfile(userId)
SvcGetUserProfile(tbl, em, u, q) ==
  CASE q.kind = "throw" -> Caught(q.msg, "Failed to get user profile")
    [] q.kind \in {"error", "empty"} -> Fail(OrElse(q.msg, "User profile not found"))
    [] q.kind = "ok" -> Ok(UserOf(tbl, em, u), FALSE)

\* addresses submitted to login and to register
LoginEmails == {NoEmail, EmailAPadded}
RegisterEmails == {NoEmail, EmailDUpper}

\* login(credentials): signInWithPassword answered a, the profile query q
LoginResult(u, a, q) ==
  CASE a.kind = "throw" -> Caught(a.msg, "Login failed")
    [] a.kind = "error" -> FailCode(a.msg, "AuthApiError")
    [] a.kind = "empty" -> Fail("Authentication failed")
    [] a.kind = "ok" ->
         LET r == SvcGetUserProfile(userProfiles, userEmails, u, q) IN
           IF ~r.success \/ r.data = NoData
             THEN FailT("Failed to load user profile", r.threw)
             ELSE Ok(AuthSessionOf(r.data, TokenOf(u)), FALSE)

\* getCurrentSession(): getSession answered a (its session is the backend's),
\* the profile query q
GetCurrentSessionResult(a, q) ==
  CASE a.kind = "throw" -> Caught(a.msg, "Failed to get session")
    [] a.kind = "error" -> Fail(a.msg)
    [] a.kind = "ok" ->
         IF backendSession = NoUser
           THEN Fail("No active session")
           ELSE LET r == SvcGetUserProfile(userProfiles, userEmails, backendSession, q) IN
                  IF ~r.success \/ r.data = NoData
                    THEN FailT("Failed to load user profile", r.threw)
                    ELSE Ok(AuthSessionOf(r.data, TokenOf(backendSession)), FALSE)

\* outcomes of the getSession / getUser call and of the profile query that
\* follows it when there is a session
SessionCallOutcomes ==
  {<<a, q>> \in CallOutcomes \X (Throws \cup Errs \cup {Outcome("empty")} \cup Oks) :
     /\ (a.kind = "ok" /\ backendSession # NoUser) =>
           q \in QueryOutcomes(userProfiles, backendSession)
     /\ (a.kind # "ok" \/ backendSession = NoUser) => q = Outcome("empty")}

\* faulty variant: after a refresh the session returned is the first account's
RefreshSessionResultFirstAccount(r, a, q) ==
  CASE r.kind = "throw" -> Caught(r.msg, "Session refresh failed")
    [] r.kind \in {"error", "empty"} -> Fail(OrElse(r.msg, "Failed to refresh session"))
    [] r.kind = "ok" ->
         Ok(AuthSessionOf(UserOf(userProfiles, userEmails, "u1"), TokenOf("u1")), FALSE)
\* refreshSession(): auth.refreshSession answered r, then getCurrentSession()
RefreshSessionResult(r, a, q) ==
  CASE r.kind = "throw" -> Caught(r.msg, "Session refresh failed")
    [] r.kind \in {"error", "empty"} -> Fail(OrElse(r.msg, "Failed to refresh session"))
    [] r.kind = "ok" -> GetCurrentSessionResult(a, q)

\* logout / changePassword / resetPassword: one backend call, no payload
VoidResult(a, fallback) ==
  CASE a.kind = "throw" -> Caught(a.msg, fallback)
    [] a.kind = "error" -> Fail(a.msg)
    [] a.kind = "ok" -> Ok(NoData, FALSE)

\* getCurrentUser(): getUser answered a (its user is the backend session's)
GetCurrentUserResult(a, q) ==
  CASE a.kind = "throw" -> Caught(a.msg, "Failed to get current user")
    [] a.kind = "error" -> Fail(OrElse(a.msg, "No authenticated user"))
    [] a.kind = "ok" ->
         IF backendSession = NoUser
           THEN Fail("No authenticated user")
           ELSE SvcGetUserProfile(userProfiles, userEmails, backendSession, q)

\* faulty variant: every provided field is copied into the update
UpdateDataAll(updates) == [first_name |-> updates.firstName, email |-> updates.email]
\* updateData built by updateProfile(updates): of the provided fields only
\* firstName is copied (lastName alike); email stands for every other field
UpdateData(updates) == [first_name |-> updates.firstName, email |-> Absent]

\* from("user_profiles").update(d).eq("id", u): the columns that d carries are
\* written to the row of u, when there is one
UpdatedRows(tbl, u, d) ==
  IF d.first_name = Absent \/ tbl[u] = Missing THEN tbl
                                                ELSE [tbl EXCEPT ![u] = d.first_name]
UpdatedEmails(em, tbl, u, d) ==
  IF d.email = Absent \/ tbl[u] = Missing THEN em ELSE [em EXCEPT ![u] = d.email]

\* updateProfile(updates): getCurrentUser() gave cu, the update answered w,
\* the final profile query q2
UpdateProfileResult(cu, updates, w, q2) ==
  IF ~cu.success \/ cu.data = NoData
    THEN FailT("No authenticated user", cu.threw)
    ELSE CASE w.kind = "throw" -> Caught(w.msg, "Profile update failed")
           [] w.kind = "error" -> Fail(w.msg)
           [] w.kind = "ok" ->
                LET d == UpdateData(updates) IN
                  SvcGetUserProfile(UpdatedRows(userProfiles, cu.data.id, d),
                                    UpdatedEmails(userEmails, userProfiles, cu.data.id, d),
                                    cu.data.id, q2)

ProfileCreationFailed == "Profile creation failed: backend error"

\* register(data): auth.signUp answered a, the default-contractor lookup c
\* (not made when data.contractorId is given), the insert i, the profile query q
RegisterResult(u, email, name, a, c, i, q) ==
  CASE a.kind = "throw" -> Caught(a.msg, "Registration failed")
    [] a.kind = "error" -> FailCode(a.msg, "AuthApiError")
    [] a.kind = "nouser" -> Fail("Failed to create user account")
    [] a.kind \in {"okSession", "okNoSession"} ->
         CASE c.kind = "throw" -> Caught(c.msg, "Registration failed")
           [] i.kind = "throw" -> Caught(i.msg, "Registration failed")
           [] i.kind = "error" -> Fail(ProfileCreationFailed)
           [] OTHER ->
                LET r == SvcGetUserProfile([userProfiles EXCEPT ![u] = name],
                                           [userEmails EXCEPT ![u] = email], u, q) IN
                  IF ~r.success \/ r.data = NoData
                    THEN FailT("Failed to load user profile after registration", r.threw)
                    ELSE Ok(AuthSessionOf(r.data,
                              IF a.kind = "okSession" THEN TokenOf(u) ELSE ""), FALSE)

svcFrame == <<state, mountVars, handlers, profiles, actionVars, unhandled,
              ghostVars, events, subVars, ui>>

\* the service and the coordinator use the same supabase client: a session
\* change made through the service is notified to the coordinator's
\* subscription when there is one
Emit(changed, s) ==
  IF changed /\ subscribed
    THEN Len(notifQ) < MaxQueue /\ notifQ' = Append(notifQ, s)
    ELSE notifQ' = notifQ

\* the backend signs an identity in when the address it is sent is the
\* identity's, compared without regard to case, and the password is the
\* identity's (no identity has an empty address or an empty password)
SignInMatches(u, sent, password) ==
  /\ u \in accounts
  /\ sent # NoEmail
  /\ password # NoPassword
  /\ ToLowerCase(sent) = authEmails[u]

\* how the profile query of an operation went: not made, answered with the
\* row, or failed
Lookup(made, q) == IF ~made THEN "none" ELSE IF q.kind = "ok" THEN "ok" ELSE "failed"

SvcLogin ==
  \E u \in Users, email \in LoginEmails, password \in Passwords,
     a \in CallOutcomes \cup {Outcome("empty")} :
    \E q \in IF a.kind = "ok" THEN QueryOutcomes(userProfiles, u)
                              ELSE {Outcome("empty")} :
      /\ a.kind = "ok" => SignInMatches(u, Trim(email), password)
      /\ a.kind # "ok" => u = "u1"
      /\ backendSession' = IF a.kind = "ok" THEN u ELSE backendSession
      /\ Emit(a.kind = "ok", u)
      /\ svc' = [op |-> "login", res |-> LoginResult(u, a, q),
                 email |-> email, password |-> password,
                 lookup |-> Lookup(a.kind = "ok", q)]
      /\ UNCHANGED <<svcFrame, accounts, svcTables>>

\* the backend creates an identity for a new address it is given with a
\* password; given no address it creates one without (an anonymous sign-in)
SignUpAccepts(u, email, password) ==
  /\ u \notin accounts
  /\ \/ email = NoEmail
     \/ /\ email = Trim(email)
        /\ password # NoPassword
        /\ \A v \in accounts : authEmails[v] # ToLowerCase(email)

SvcRegister ==
  \E u \in Users, email \in RegisterEmails, password \in Passwords,
     name \in SignUpNames,
     a \in Throws \cup Errs \cup {Outcome("nouser"), Outcome("okSession"), Outcome("okNoSession")},
     c \in Throws \cup {Outcome("given"), Outcome("found"), Outcome("notFound")},
     i \in CallOutcomes,
     q \in Throws \cup Errs \cup {Outcome("empty")} \cup Oks :
    LET created == a.kind \in {"okSession", "okNoSession"}
        inserted == created /\ c.kind # "throw" /\ i.kind = "ok"
    IN
      /\ created => SignUpAccepts(u, email, password)
      /\ ~created => u = "u2"
      \* calls that are not made have no answer
      /\ ~created => (c = Outcome("given") /\ i = Outcome("ok"))
      /\ (~created \/ c.kind = "throw") => i = Outcome("ok")
      /\ ~inserted => q = Outcome("empty")
      /\ accounts' = IF created THEN accounts \cup {u} ELSE accounts
      /\ backendSession' = IF a.kind = "okSession" THEN u ELSE backendSession
      /\ Emit(a.kind = "okSession", u)
      /\ authEmails' = IF created THEN [authEmails EXCEPT ![u] = ToLowerCase(email)]
                                  ELSE authEmails
      /\ userProfiles' = IF inserted THEN [userProfiles EXCEPT ![u] = name]
                                     ELSE userProfiles
      /\ userEmails' = IF inserted THEN [userEmails EXCEPT ![u] = email]
                                   ELSE userEmails
      /\ svc' = [op |-> "register",
                 res |-> RegisterResult(u, email, name, a, c, i, q),
                 email |-> email, password |-> password]
      /\ UNCHANGED svcFrame

SvcLogout ==
  \E a \in CallOutcomes :
    /\ backendSession' = IF a.kind = "ok" THEN NoUser ELSE backendSession
    /\ Emit(a.kind = "ok", NoUser)
    /\ svc' = [op |-> "logout", res |-> VoidResult(a, "Logout failed")]
    /\ UNCHANGED <<svcFrame, accounts, svcTables>>

SvcGetCurrentSession ==
  \E aq \in SessionCallOutcomes :
    /\ svc' = [op |-> "getCurrentSession",
               res |-> GetCurrentSessionResult(aq[1], aq[2]),
               lookup |-> Lookup(aq[1].kind = "ok" /\ backendSession # NoUser, aq[2])]
    /\ UNCHANGED <<svcFrame, notifQ, backendSession, accounts, svcTables>>

SvcRefreshSession ==
  \E r \in CallOutcomes \cup {Outcome("empty")}, aq \in SessionCallOutcomes :
    /\ r.kind = "ok" => backendSession # NoUser
    /\ r.kind # "ok" => aq = <<Outcome("ok"), Outcome("empty")>>
    /\ Emit(r.kind = "ok", backendSession)
    /\ svc' = [op |-> "refreshSession",
               res |-> RefreshSessionResult(r, aq[1], aq[2])]
    /\ UNCHANGED <<svcFrame, backendSession, accounts, svcTables>>

SvcChangePassword ==
  \E a \in CallOutcomes :
    /\ svc' = [op |-> "changePassword",
               res |-> VoidResult(a, "Password change failed")]
    /\ UNCHANGED <<svcFrame, notifQ, backendSession, accounts, svcTables>>

\* some account of the backend has this address
EmailKnown(e) == \E u \in accounts : authEmails[u] = ToLowerCase(e)

\* faulty variant: resetPassword looks the account up before asking the backend
ResetPasswordResultKnownOnly(email, a) ==
  IF EmailKnown(email) THEN VoidResult(a, "Password reset failed")
                       ELSE Fail("User not found")
\* resetPassword(email): resetPasswordForEmail(email) answered a
ResetPasswordResult(email, a) == VoidResult(a, "Password reset failed")

SvcResetPassword ==
  \E email \in {EmailAUpper, EmailDUpper}, a \in CallOutcomes :
    /\ svc' = [op |-> "resetPassword",
               res |-> ResetPasswordResult(email, a),
               email |-> email, answer |-> a]
    /\ UNCHANGED <<svcFrame, notifQ, backendSession, accounts, svcTables>>

SvcGetCurrentUser ==
  \E aq \in SessionCallOutcomes :
    /\ svc' = [op |-> "getCurrentUser",
               res |-> GetCurrentUserResult(aq[1], aq[2])]
    /\ UNCHANGED <<svcFrame, notifQ, backendSession, accounts, svcTables>>

SvcUpdateProfile ==
  \E updates \in [firstName : Names \cup {Absent}, email : {Absent, EmailDUpper}],
     aq \in SessionCallOutcomes,
     w \in CallOutcomes, q2 \in Throws \cup Errs \cup {Outcome("empty")} \cup Oks :
    LET cu == GetCurrentUserResult(aq[1], aq[2])
        current == cu.success /\ cu.data # NoData
        written == current /\ w.kind = "ok"
    IN
      /\ ~current => w = Outcome("ok")
      /\ ~written => q2 = Outcome("empty")
      /\ written => q2 \in QueryOutcomes(userProfiles, backendSession)
      /\ userProfiles' = IF written
                           THEN UpdatedRows(userProfiles, backendSession,
                                            UpdateData(updates))
                           ELSE userProfiles
      /\ userEmails' = IF written
                         THEN UpdatedEmails(userEmails, userProfiles, backendSession,
                                            UpdateData(updates))
                         ELSE userEmails
      /\ svc' = [op |-> "updateProfile",
                 res |-> UpdateProfileResult(cu, updates, w, q2),
                 updates |-> updates]
      /\ UNCHANGED <<svcFrame, notifQ, backendSession, accounts, authEmails>>

\* isAuthenticated(): getCurrentSession().success
SvcIsAuthenticated ==
  \E aq \in SessionCallOutcomes :
    LET s == GetCurrentSessionResult(aq[1], aq[2]) IN
      /\ svc' = [op |-> "isAuthenticated",
                 res |-> [value |-> s.success, threw |-> s.threw,
                          rejected |-> s.rejected]]
      /\ UNCHANGED <<svcFrame, notifQ, backendSession, accounts, svcTables>>

\* faulty variant: the header carries the token without its scheme
AuthHeadersNoScheme(s) ==
  IF s.success /\ s.data # NoData
    THEN {<<"Authorization", <<s.data.accessToken>> >>}
    ELSE {}
\* getAuthHeaders(): {Authorization: `Bearer ${accessToken}`} or {}
AuthHeaders(s) ==
  IF s.success /\ s.data # NoData
    THEN {<<"Authorization", <<"Bearer ", s.data.accessToken>> >>}
    ELSE {}

SvcGetAuthHeaders ==
  \E aq \in SessionCallOutcomes :
    LET s == GetCurrentSessionResult(aq[1], aq[2]) IN
      /\ svc' = [op |-> "getAuthHeaders",
                 res |-> [headers |-> AuthHeaders(s), threw |-> s.threw,
                          rejected |-> s.rejected,
                          authenticated |-> s.success]]
      /\ UNCHANGED <<svcFrame, notifQ, backendSession, accounts, svcTables>>

SvcNext ==
  \/ SvcLogin
  \/ SvcRegister
  \/ SvcLogout
  \/ SvcGetCurrentSession
  \/ SvcRefreshSession
  \/ SvcChangePassword
  \/ SvcResetPassword
  \/ SvcGetCurrentUser
  \/ SvcUpdateProfile
  \/ SvcIsAuthenticated
  \/ SvcGetAuthHeaders

\* the service on its own, called in any order against the backend
SvcSpec == Init /\ [][SvcNext]_vars

\* ------------------------------------------- the service's onAuthStateChange
\* faulty variant: the listener stays silent when the profile cannot be loaded
ListenerCallsSkipFailed(u, r) ==
  IF r.success /\ r.data # NoData
    THEN <<AuthSessionOf(r.data, TokenOf(u))>>
    ELSE <<>>
\* what the listener passes to the caller's callback once getUserProfile has
\* answered r for the session of u: the AuthSession, or null
ListenerCalls(u, r) ==
  IF r.success /\ r.data # NoData
    THEN <<AuthSessionOf(r.data, TokenOf(u))>>
    ELSE <<NoData>>

LogEntries(n, lookup, args) ==
  [i \in 1..Len(args) |-> [event |-> n, session |-> args[i], lookup |-> lookup]]

subFrame == <<coordVars, svcTables, svc, ui>>

\* onAuthStateChange(callback): registers the listener and returns the
\* unsubscribe action
SvcOnAuthStateChange ==
  /\ svcSub = "none"
  /\ svcSub' = "subscribed"
  /\ UNCHANGED <<subFrame, svcPending, cbLog, reported>>

\* the backend reports a session transition (sign-in, token refresh,
\* sign-out) to the registered listener: without a user the listener calls
\* callback(null) at once, with one it suspends in getUserProfile
SvcAuthEvent ==
  \E s \in accounts \cup {NoUser} :
    /\ svcSub = "subscribed"
    /\ reported < MaxReported
    /\ reported' = reported + 1
    /\ IF s = NoUser
         THEN /\ cbLog' = cbLog \o LogEntries(reported + 1, "none", <<NoData>>)
              /\ UNCHANGED svcPending
         ELSE /\ svcPending' = Append(svcPending, [event |-> reported + 1, user |-> s])
              /\ UNCHANGED cbLog
    /\ UNCHANGED <<subFrame, svcSub>>

\* a suspended listener invocation resumes with the answer of getUserProfile
SvcListenerResume ==
  \E i \in 1..Len(svcPending) :
    \E q \in QueryOutcomes(userProfiles, svcPending[i].user) :
      LET u == svcPending[i].user
          r == SvcGetUserProfile(userProfiles, userEmails, u, q)
      IN
        /\ cbLog' = cbLog \o LogEntries(svcPending[i].event, Lookup(TRUE, q),
                                        ListenerCalls(u, r))
        /\ svcPending' = Remove(svcPending, i)
        /\ UNCHANGED <<subFrame, svcSub, reported>>

\* the unsubscribe action returned by onAuthStateChange
SvcUnsubscribe ==
  /\ svcSub = "subscribed"
  /\ svcSub' = "unsubscribed"
  /\ UNCHANGED <<subFrame, svcPending, cbLog, reported>>

SubNext ==
  \/ SvcOnAuthStateChange
  \/ SvcAuthEvent
  \/ SvcListenerResume
  \/ SvcUnsubscribe

SubSpec == Init /\ [][SubNext]_vars

\* the three ways a consumer is given a session by the service
ReportNext ==
  \/ SvcLogin
  \/ SvcGetCurrentSession
  \/ SubNext

ReportSpec == Init /\ [][ReportNext]_vars

\* a suspended listener invocation resumes: getUserProfile always settles
FairSubSpec == SubSpec /\ WF_vars(SvcListenerResume)

\* signing in, through the coordinator or through the service, and reading
\* the session back, against one backend and one supabase client
SessionNext ==
  \/ MountGetSession
  \/ MountSubscribe
  \/ GetSessionResolve
  \/ GetSessionReject
  \/ DeliverNotification
  \/ ProfileFetched
  \/ SignInCall
  \/ SignInBackend
  \/ SignInResume
  \/ SvcLogin
  \/ SvcGetCurrentSession

SessionSpec == Init /\ [][SessionNext]_vars

\* ================================================================ screens
\* AuthScreen toggles between the login screen (signIn) and the register
\* screen (signUp) of the context; RegisterScreen.tsx is the register screen
\* keyed by first and last name, which calls register(...)

LoginMinPassword == 6
RegisterMinPassword == 8
MinNameLength == 2

\* /^[^\s@]+@[^\s@]+\.[^\s@]+$/.test(e)
EmailPattern(e) ==
  \E i, j \in 1..Len(e) :
    /\ i > 1
    /\ e[i] = "@"
    /\ j > i + 1
    /\ j < Len(e)
    /\ e[j] = "."
    /\ \A k \in 1..Len(e) : k # i => e[k] \notin {" ", "@"}

\* /\S+@\S+\.\S+/.test(e): a match anywhere in e
LooseEmailPattern(e) ==
  \E i, j \in 1..Len(e) :
    /\ i > 1
    /\ e[i] = "@"
    /\ e[i - 1] # " "
    /\ j > i + 1
    /\ j < Len(e)
    /\ e[j] = "."
    /\ e[j + 1] # " "
    /\ \A k \in (i + 1)..(j - 1) : e[k] # " "

\* /(?=.*[a-z])(?=.*[A-Z])(?=.*\d)/.test(p)
PasswordMixed(p) ==
  /\ \E i \in 1..Len(p) : p[i] \in {"a", "b", "c", "d", "x", "y"}
  /\ \E i \in 1..Len(p) : p[i] \in {"A", "D"}
  /\ \E i \in 1..Len(p) : p[i] = "1"

\* validateForm of the login screen: no entry in newErrors
ValidateLoginForm(f) ==
  /\ Trim(f.email) # <<>>
  /\ EmailPattern(Trim(f.email))
  /\ f.password # <<>>
  /\ Len(f.password) >= LoginMinPassword

\* validateForm of the register screen (full name, company, role)
ValidateRegisterForm(f) ==
  /\ Trim(f.email) # <<>>
  /\ EmailPattern(Trim(f.email))
  /\ f.password # <<>>
  /\ Len(f.password) >= RegisterMinPassword
  /\ PasswordMixed(f.password)
  /\ f.confirm # <<>>
  /\ f.confirm = f.password
  /\ Trim(f.name) # <<>>
  /\ Len(Trim(f.name)) >= MinNameLength
  /\ f.company # <<>> => Len(Trim(f.company)) >= MinNameLength
  /\ f.role # <<>> => Len(Trim(f.role)) >= MinNameLength

\* validateForm of the register screen keyed by first and last name
ValidateRegisterNamesForm(f) ==
  /\ Trim(f.name) # <<>>
  /\ Trim(f.name2) # <<>>
  /\ Trim(f.email) # <<>>
  /\ LooseEmailPattern(f.email)
  /\ f.password # <<>>
  /\ Len(f.password) >= RegisterMinPassword
  /\ f.password = f.confirm

EmailInnerBlank == <<"x", " ", "a", "@", "b", ".", "c">>
Pw6 == <<"a", "a", "a", "a", "a", "a">>
Pw8 == <<"a", "a", "a", "a", "a", "a", "a", "a">>
Pw8Mixed == <<"a", "A", "1", "a", "a", "a", "a", "a">>

\* forms submitted on the login screen: a valid one, and ones that break one
\* rule each
LoginForms ==
  {Form(e, Pw6, <<>>, <<>>, <<>>, <<>>, <<>>) :
     e \in {EmailAPadded, NoEmail, <<" ">>, <<"a", "b", ".", "c">>,
            <<"a", "@", "b", "c">>, EmailInnerBlank}}
  \cup {Form(EmailAPadded, p, <<>>, <<>>, <<>>, <<>>, <<>>) :
          p \in {NoPassword, <<"a", "A", "1">>}}

RegisterForms ==
  {Form(e, Pw8Mixed, Pw8Mixed, <<"x", "y">>, <<>>, <<>>, <<>>) :
     e \in {EmailDUpper, NoEmail, EmailInnerBlank}}
  \cup {Form(EmailDUpper, p, p, <<"x", "y">>, <<>>, <<>>, <<>>) :
          p \in {NoPassword, Pw6, Pw8}}
  \cup {Form(EmailDUpper, Pw8Mixed, c, <<"x", "y">>, <<>>, <<>>, <<>>) :
          c \in {<<>>, Pw8}}
  \cup {Form(EmailDUpper, Pw8Mixed, Pw8Mixed, n, <<>>, <<>>, <<>>) :
          n \in {<<>>, <<" ">>, <<"x">>}}
  \cup {Form(EmailDUpper, Pw8Mixed, Pw8Mixed, <<"x", "y">>, <<>>, c, r) :
          c \in {<<>>, <<"x">>}, r \in {<<>>, <<"x">>}}

RegisterNamesForms ==
  {Form(e, Pw8, Pw8, <<"x">>, <<"y">>, <<>>, <<>>) :
     e \in {EmailDUpper, NoEmail, <<"a", "b", ".", "c">>, EmailInnerBlank}}
  \cup {Form(EmailDUpper, p, p, <<"x">>, <<"y">>, <<>>, <<>>) :
          p \in {NoPassword, Pw6}}
  \cup {Form(EmailDUpper, Pw8, Pw8Mixed, <<"x">>, <<"y">>, <<>>, <<>>)}
  \cup {Form(EmailDUpper, Pw8, Pw8, n[1], n[2], <<>>, <<>>) :
          n \in {<< <<" ">>, <<"y">> >>, << <<"x">>, <<>> >>}}

Submitted(screen, f, called) ==
  [ui EXCEPT !.screen = screen, !.form = f, !.called = called]

\* "Register here" / "Sign in here": disabled while loading
SwitchMode ==
  /\ mountPc = "mounted"
  /\ ~state.loading
  /\ ui' = [ui EXCEPT !.mode = IF ui.mode = "login" THEN "register" ELSE "login"]
  /\ UNCHANGED <<coordVars, svcVars>>

\* handleLogin, from the "Sign In" button (disabled while loading)
HandleLogin ==
  \E f \in LoginForms :
    /\ mountPc = "mounted"
    /\ ui.screen # "registerNames"
    /\ ui.mode = "login"
    /\ ~state.loading
    /\ IF ValidateLoginForm(f)
         THEN /\ SignInBegin("u1")
              /\ ui' = Submitted("login", f, TRUE)
              /\ UNCHANGED calls
         ELSE /\ ui' = Submitted("login", f, FALSE)
              /\ UNCHANGED <<coordVars, svcVars>>

\* handleRegister, from the "Create Account" button (disabled while loading)
HandleRegister ==
  \E f \in RegisterForms :
    /\ mountPc = "mounted"
    /\ ui.screen # "registerNames"
    /\ ui.mode = "register"
    /\ ~state.loading
    /\ IF ValidateRegisterForm(f)
         THEN /\ SignUpBegin("u2", "n1")
              /\ ui' = Submitted("register", f, TRUE)
              /\ UNCHANGED calls
         ELSE /\ ui' = Submitted("register", f, FALSE)
              /\ UNCHANGED <<coordVars, svcVars>>

\* handleRegister of RegisterScreen.tsx: it calls register({...formData}) of a
\* context that offers login and register, so this screen is rendered in a
\* tree of its own, never next to the two screens of the coordinator
HandleRegisterNames ==
  \E f \in RegisterNamesForms :
    /\ ui.screen \in {"none", "registerNames"}
    /\ ui' = Submitted("registerNames", f, ValidateRegisterNamesForm(f))
    /\ UNCHANGED <<coordVars, svcVars>>

UiNext ==
  \/ MountGetSession
  \/ MountSubscribe
  \/ GetSessionResolve
  \/ GetSessionReject
  \/ DeliverNotification
  \/ ProfileFetched
  \/ SignInBackend
  \/ SignInResume
  \/ SignUpBackend
  \/ SignUpResume
  \/ CreateProfileBackend
  \/ SignUpInsertResume
  \/ SwitchMode
  \/ HandleLogin
  \/ HandleRegister
  \/ HandleRegisterNames

\* the screens driving the coordinator; the backend's session changes only
\* through the actions the screens start
UiSpec == Init /\ [][UiNext]_vars

\* fairness of the event loop: a promise that can settle settles, a queued
\* callback runs; the UI and the backend's own events are under no obligation
FairSpec ==
  /\ Spec
  /\ WF_vars(MountGetSession)
  /\ WF_vars(MountSubscribe)
  /\ WF_vars(GetSessionResolve \/ GetSessionReject)
  /\ WF_vars(DeliverNotification)
  /\ WF_vars(ProfileFetched)

\* ------------------------------------------------------------ properties
SignInSettles == signInPc # "idle" /\ signInPc' = "idle"
SignUpSettles == signUpPc # "idle" /\ signUpPc' = "idle"
SignOutSettles == signOutPc # "idle" /\ signOutPc' = "idle"

\* nothing of the mount effect or of the subscription is still in flight
Quiescent ==
  /\ mountPc = "mounted"
  /\ getSessionP = "settled"
  /\ notifQ = <<>>
  /\ handlers = <<>>

\* C1: when signOut() has completed, whether the remote sign-out succeeded,
\* returned an error or threw, user and profile are null and loading is false.
C1_SignOutClearsSession ==
  [][SignOutSettles =>
       /\ state'.user = NoUser
       /\ state'.profile = NoProfile
       /\ ~state'.loading]_vars

\* C2: when the promise of signIn, signUp or signOut has resolved, loading is
\* false, on every exit path.
C2_LoadingResetOnEveryExit ==
  [][(SignInSettles \/ SignUpSettles \/ SignOutSettles) => ~state'.loading]_vars

\* C3: once every in-flight handler has finished, the coordinator's user is
\* the user of the most recently delivered session outcome (null if that
\* outcome was null).
C3_LastDeliveredWins ==
  (Quiescent /\ lastDelivered # Nothing) => state.user = lastDelivered

\* C4: a failing signIn (backend error or throw) sets loading to false,
\* returns a non-null error with a message, and no step of signIn changes
\* user, profile or initialized.
C4_SignInFailure ==
  [][/\ (SignInSettles /\ signInPc \in {"error", "throw"}) =>
          /\ ~state'.loading
          /\ ret'.op = "signIn"
          /\ ret'.error \notin {NoError, ""}
     /\ signInPc' # signInPc =>
          /\ state'.user = state.user
          /\ state'.profile = state.profile
          /\ state'.initialized = state.initialized]_vars

\* C4 witness: a sign-in has failed while a user was held, and the user is
\* still held
C4_Witness ==
  /\ ret.op = "signIn"
  /\ ret.error # NoError
  /\ state.user # NoUser
  /\ ~state.loading

\* C5: no coordinator action or mount-time handler ends in an unhandled
\* exception or unhandled promise rejection, whatever the backend does.
C5_NoUnhandledRejection == ~unhandled

\* C6: whenever a backend call throws inside a service operation, the
\* operation still resolves: to {success: false, error} with a non-empty
\* error, or to false / the empty mapping for isAuthenticated / getAuthHeaders.
C6_ServiceCatchesThrows ==
  (svc.op # "none" /\ svc.res.threw) =>
     /\ ~svc.res.rejected
     /\ CASE svc.op = "isAuthenticated" -> svc.res.value = FALSE
          [] svc.op = "getAuthHeaders" -> svc.res.headers = {}
          [] OTHER -> /\ svc.res.success = FALSE
                      /\ svc.res.data = NoData
                      /\ svc.res.error \notin {"", Absent}

\* C6 witness: an operation has run in which a backend call threw an error
\* with an empty message
C6_Witness ==
  /\ svc.op = "register"
  /\ svc.res.threw
  /\ svc.res.error = "Registration failed"

\* C7: when identity creation succeeded and the profile insert failed, no
\* session is adopted: once the call has completed and every notification is
\* handled, the coordinator does not hold the user that was being registered.
\* (The error text "Profile creation failed: <reason>" is the one the
\* service's register returns; signUp returns SignUpUnexpected.)
C7_NoSessionAfterFailedProfileInsert ==
  (ret.op = "signUpInsertFailed" /\ Quiescent) => state.user # ret.user

\* C8: user is null or the user of a session that was passed to
\* handleAuthStateChange, a single value at a time, and no step of signIn,
\* signUp, signOut or updateProfile assigns it.
C8_UserDerivedFromSession ==
  /\ [](state.user \in delivered \cup {NoUser})
  /\ [][actionVars' # actionVars => state'.user = state.user]_vars

\* C8 witness: an action has settled while a delivered session's user is held
C8_Witness ==
  /\ state.user # NoUser
  /\ ret.op \in {"signIn", "signUp", "signOut", "updateProfile"}

\* C9 as stated: the subscription is registered before the current session is
\* requested, the coordinator is loading on mount, and the session is
\* requested once.
C9_SubscribeBeforeFetch ==
  /\ mountPc = "init" => state.loading
  /\ getSessionCalls > 0 => subscribed
  /\ getSessionCalls <= 1

\* C9 amended: on mount the coordinator is loading; it requests the current
\* session first and registers for notifications right after, in the same
\* effect, each exactly once per mount.
C9_FetchBeforeSubscribe ==
  /\ mountPc \in {"init", "fetchRequested"} => state = InitialState
  /\ subscribed => getSessionCalls = 1
  /\ mountPc = "fetchRequested" => (getSessionCalls = 1 /\ ~subscribed)
  /\ mountPc = "mounted" => (getSessionCalls = 1 /\ subscribed)
  /\ mountPc = "init" => (getSessionCalls = 0 /\ ~subscribed)

\* C9 witness: the mount effect has run and the coordinator is still loading
C9_Witness ==
  /\ mountPc = "mounted"
  /\ subscribed
  /\ getSessionCalls = 1
  /\ state.loading
  /\ getSessionP = "pending"

\* C10: the first session outcome handled sets initialized and clears
\* loading, with user non-null exactly when the session has a user; and under
\* fair delivery the coordinator eventually is initialized.
C10_FirstOutcomeInitializes ==
  /\ [][(~state.initialized /\ state'.initialized) =>
          /\ ~state'.loading
          /\ IF handlers' # handlers
               THEN \E i \in 1..Len(handlers) : state'.user = handlers[i]
               ELSE state'.user = NoUser /\ lastDelivered' = NoUser]_vars
  /\ <>state.initialized

\* C11: when the initial session fetch and the auth-state notification both
\* carry no session, user and profile are null in every state, in whichever
\* order the two are handled, and once both are handled the coordinator is
\* unauthenticated with loading false.
C11_NoSessionNoIntermediateUser ==
  /\ delivered = {} => (state.user = NoUser /\ state.profile = NoProfile)
  /\ (Quiescent /\ delivered = {} /\ lastDelivered = NoUser /\ calls = 0) =>
       (~state.loading /\ state.initialized)

\* C11 witness: the fetch resolved with no session and a notification with no
\* session was handled, and nothing else happened
C11_Witness ==
  /\ Quiescent
  /\ ~unhandled
  /\ events = 1
  /\ calls = 0
  /\ delivered = {}
  /\ lastDelivered = NoUser
  /\ state.user = NoUser
  /\ ~state.loading

C13_ResultShape ==
  svc.op \in {"login", "register", "getCurrentSession", "refreshSession",
              "getCurrentUser", "updateProfile"} =>
    IF svc.res.success
      THEN svc.res.data # NoData
      ELSE svc.res.data = NoData /\ svc.res.error # Absent

\* C13 witness: refreshSession failed because the backend returned neither a
\* session nor an error
C13_Witness ==
  /\ svc.op = "refreshSession"
  /\ ~svc.res.success
  /\ svc.res.data = NoData
  /\ svc.res.error = "Failed to refresh session"

\* C14: every call of the service's login or register with an empty email or
\* an empty password returns success=false with a non-empty error message
\* and leaves the session as it was.
C14_EmptyCredentialsRejected ==
  [][(/\ svc'.op \in {"login", "register"}
      /\ (svc'.email = NoEmail \/ svc'.password = NoPassword)) =>
        /\ ~svc'.res.success
        /\ svc'.res.error \notin {"", Absent}
        /\ backendSession' = backendSession]_vars

\* C15 as stated: after a login that returned success, getCurrentSession()
\* returns a successful session whose user.email is the submitted email up
\* to case, and when the coordinator's sign-in has returned success its user
\* is non-null.
C15_LoginThenSession ==
  /\ [][(svc.op = "login" /\ svc.res.success /\ svc'.op = "getCurrentSession") =>
          /\ svc'.res.success
          /\ ToLowerCase(svc'.res.data.user.email) = ToLowerCase(svc.email)]_vars
  /\ [][(SignInSettles /\ ret'.error = NoError) => state'.user # NoUser]_vars

\* C15 amended: after a login that returned success, getCurrentSession()
\* either fails because the backend fails (never with "No active session")
\* or returns a session whose user.email is the submitted email, trimmed, up
\* to case; and when the coordinator's sign-in has returned success, its user
\* is non-null once every notification is handled and the last one handled
\* carried a session.
C15_LoginThenSessionTrimmed ==
  /\ [][(svc.op = "login" /\ svc.res.success /\ svc'.op = "getCurrentSession") =>
          IF svc'.res.success
            THEN /\ ToLowerCase(svc'.res.data.user.email) =
                      ToLowerCase(Trim(svc.email))
                 /\ svc'.res.data.user.id = svc.res.data.user.id
            ELSE svc'.res.error # "No active session"]_vars
  /\ [](( /\ ret.op = "signIn"
          /\ ret.error = NoError
          /\ Quiescent
          /\ lastDelivered \notin {NoUser, Nothing}) => state.user # NoUser)

\* C15 witness: a login with a padded address succeeded, getCurrentSession
\* returned its session, and the coordinator's sign-in has succeeded with
\* its notification handled
C15_Witness ==
  /\ svc.op = "getCurrentSession"
  /\ svc.res.success
  /\ svc.res.data.user.email = EmailAUpper
  /\ ret.op = "signIn"
  /\ ret.error = NoError
  /\ Quiescent
  /\ state.user = "u1"

\* C16: onAuthStateChange registers the listener and hands back an
\* unsubscribe action, and every session transition the backend reports to
\* the listener leads to exactly one invocation of the callback: it is
\* pending or made, never both, and it is eventually made.
C16_CallbackPerTransition ==
  /\ [](\A n \in 1..MaxReported :
         LET made == Cardinality({i \in 1..Len(cbLog) : cbLog[i].event = n})
             pending == Cardinality({i \in 1..Len(svcPending) : svcPending[i].event = n})
         IN made + pending = (IF n <= reported THEN 1 ELSE 0))
  /\ \A n \in 1..MaxReported :
       [](reported >= n => <>(\E i \in 1..Len(cbLog) : cbLog[i].event = n))

\* C16 witness: two transitions were reported, one answered with a session
\* and one with null after the profile could not be loaded, and the listener
\* has since been unsubscribed
C16_Witness ==
  /\ svcSub = "unsubscribed"
  /\ reported = 2
  /\ svcPending = <<>>
  /\ \E i, j \in 1..Len(cbLog) :
       /\ cbLog[i].session # NoData
       /\ cbLog[j].session = NoData
       /\ cbLog[j].event = 1

\* text that is an address: no blank, one "@" with text before it, and after
\* it a "." with text on both sides
WellFormedEmail(e) ==
  LET ats == {i \in 1..Len(e) : e[i] = "@"} IN
    /\ \A i \in 1..Len(e) : e[i] # " "
    /\ Cardinality(ats) = 1
    /\ \E i \in ats : i > 1 /\ \E j \in (i + 2)..(Len(e) - 1) : e[j] = "."

\* what C17 says a submitted form satisfies when the action is called
FormAsRequired(screen, f) ==
  /\ f.email # <<>>
  /\ WellFormedEmail(Trim(f.email))
  /\ f.password # <<>>
  /\ Len(f.password) >= (IF screen = "login" THEN LoginMinPassword
                                              ELSE RegisterMinPassword)
  /\ screen # "login" => (Trim(f.name) # <<>> /\ f.confirm = f.password)
  /\ screen = "registerNames" => Trim(f.name2) # <<>>

\* C17: a screen calls the sign-in / sign-up action only for a form with a
\* non-empty, well-formed email, a non-empty password of the screen's minimum
\* length and, for registration, the names and a matching confirmation; a
\* form that fails validation starts no action and leaves the coordinator's
\* state unchanged.
C17_OnlyValidFormsReachTheCore ==
  /\ [](ui.called => FormAsRequired(ui.screen, ui.form))
  /\ [][(ui' # ui /\ ~ui'.called) =>
          (state' = state /\ signInPc' = signInPc /\ signUpPc' = signUpPc)]_vars

\* C18: the login and register screens act (submit, switch) only while the
\* coordinator's loading flag is false, and therefore no signIn/signUp is
\* started from the screens while another one started from the screens is
\* still in flight (the coordinator itself has no such guard: SignInBegin).
C18_ScreensSerializeThroughLoading ==
  /\ [][(ui' # ui /\ ui'.screen # "registerNames") => ~state.loading]_vars
  /\ [][/\ (signInPc = "idle" /\ signInPc' # "idle") => signUpPc = "idle"
        /\ (signUpPc = "idle" /\ signUpPc' # "idle") => signInPc = "idle"]_vars

C20_RefreshKeepsUserId ==
  [][(svc'.op = "refreshSession" /\ svc' # svc /\ svc'.res.success) =>
       /\ backendSession # NoUser
       /\ svc'.res.data.user.id = backendSession
       /\ backendSession' = backendSession]_vars

\* a refresh that succeeded for the identity registered in this run
C20_Witness ==
  /\ svc.op = "refreshSession"
  /\ svc.res.success
  /\ backendSession = "u2"
  /\ svc.res.data.user.id = "u2"

\* C21: getAuthHeaders() returns the empty mapping when getCurrentSession
\* failed, and otherwise exactly one entry, Authorization = "Bearer " followed
\* by the access token of the backend's current session.
C21_AuthHeaders ==
  svc.op = "getAuthHeaders" =>
    IF svc.res.authenticated
      THEN /\ backendSession # NoUser
           /\ svc.res.headers =
                {<<"Authorization",
                   <<"Bearer ", IF backendSession = "u1" THEN "token-u1"
                                                         ELSE "token-u2">> >>}
      ELSE svc.res.headers = {}

\* headers asked while the identity registered in this run holds the session
C21_Witness ==
  /\ svc.op = "getAuthHeaders"
  /\ svc.res.authenticated
  /\ backendSession = "u2"
  /\ Cardinality(svc.res.headers) = 1

\* C22: in every reachable state of the coordinator, whatever the
\* interleaving of auth-state handling with updateProfile, a non-null profile
\* comes with a non-null user, and profile.id equals user.id.
C22_ProfileBelongsToUser ==
  state.profile # NoProfile =>
    (state.user # NoUser /\ state.profile.id = state.user)

\* C23: for any sequence of coordinator action calls and backend events,
\* loading = false implies initialized = true: the coordinator shows no
\* non-loading state before the first session outcome has been applied.
C23_NotLoadingImpliesInitialized ==
  ~state.loading => state.initialized

\* C24: the initialized flag is monotone: once it is true, no coordinator
\* action and no auth-state handler sets it back to false.
C24_InitializedMonotone ==
  [][state.initialized => state'.initialized]_vars

\* an action has set loading after the first session outcome was applied
C24_Witness ==
  /\ state.initialized
  /\ state.loading
  /\ calls > 0

\* C25: after the unsubscribe action returned by the service's
\* onAuthStateChange has been called, the subscriber's callback is not
\* invoked again, also not for an event whose profile lookup was still in
\* flight when unsubscribing.
C25_NoCallbackAfterUnsubscribe ==
  [][svcSub = "unsubscribed" => cbLog' = cbLog]_vars

\* C26: the service's onAuthStateChange invokes the subscriber's callback in
\* the order in which the backend reported the events: if event A is reported
\* before event B, the callback for A runs before the callback for B.
C26_CallbacksInEventOrder ==
  \A i, j \in 1..Len(cbLog) : i < j => cbLog[i].event < cbLog[j].event

\* C27: every AuthSession returned with success = true by login, register,
\* getCurrentSession or refreshSession carries a non-empty accessToken.
C27_SessionHasToken ==
  (/\ svc.op \in {"login", "register", "getCurrentSession", "refreshSession"}
   /\ svc.res.success) =>
     svc.res.data.accessToken # ""

\* C28: the service's updateProfile(updates) writes only the name (and
\* updated_at) of the current user's profile record: whatever updates holds,
\* the record's other columns (email, id) stay as they were, and no record
\* of another user, nor any account, is written.
C28_UpdateProfileFrame ==
  [][svc'.op = "updateProfile" =>
       /\ userEmails' = userEmails
       /\ authEmails' = authEmails
       /\ accounts' = accounts
       /\ backendSession' = backendSession
       /\ \A u \in Users :
            /\ u # backendSession => userProfiles'[u] = userProfiles[u]
            /\ (userProfiles[u] = Missing) = (userProfiles'[u] = Missing)]_vars

\* an update that carried a name and an email has been written: the name is
\* the new one, the email is not
C28_Witness ==
  /\ svc.op = "updateProfile"
  /\ svc.res.success
  /\ svc.updates.email = EmailDUpper
  /\ svc.updates.firstName = "n2"
  /\ svc.res.data.firstName = "n2"
  /\ svc.res.data.email = EmailAUpper

\* C29: the coordinator's updateProfile called while no user is signed in
\* returns the error "No user logged in", makes no backend write and leaves
\* the coordinator's state unchanged; and when the backend rejects the
\* update, updateProfile returns an error and leaves the state, the profile
\* in it included, unchanged.
C29_UpdateProfileErrors ==
  /\ [][(/\ calls' # calls
          /\ state.user = NoUser
          /\ signInPc' = signInPc
          /\ signUpPc' = signUpPc
          /\ signOutPc' = signOutPc) =>
            /\ ret' = [op |-> "updateProfile", error |-> "No user logged in",
                       user |-> NoUser]
            /\ updPc' = "idle"
            /\ profiles' = profiles
            /\ state' = state]_vars
  /\ [][(updPc = "awaiting" /\ updPc' \in {"error", "throw"}) =>
            (profiles' = profiles /\ state' = state)]_vars
  /\ [][(updPc \in {"error", "throw"} /\ updPc' = "idle") =>
            /\ ret'.op = "updateProfile"
            /\ ret'.error \notin {NoError, "No user logged in"}
            /\ state' = state]_vars

\* updateProfile has returned the backend's rejection and the state still
\* holds the user's profile
C29_Witness ==
  /\ ret.op = "updateProfile"
  /\ ret.error = BackendMsg
  /\ updPc = "idle"
  /\ state.user # NoUser
  /\ state.profile # NoProfile

\* C30: the service gives its consumers a session only together with a
\* loaded profile: login, getCurrentSession and the onAuthStateChange
\* callback yield a session only when the profile query for the backend
\* session's user answered with the row; when the backend has a session but
\* the query fails, login and getCurrentSession return success = false and
\* the callback is invoked with null.
C30_SessionOnlyWithProfile ==
  /\ [](svc.op \in {"login", "getCurrentSession"} =>
          /\ svc.res.success => svc.lookup = "ok"
          /\ svc.lookup = "failed" => (~svc.res.success /\ svc.res.data = NoData))
  /\ [](\A i \in 1..Len(cbLog) :
          /\ cbLog[i].session # NoData => cbLog[i].lookup = "ok"
          /\ cbLog[i].lookup = "failed" => cbLog[i].session = NoData)
  /\ [][Len(svcPending') < Len(svcPending) => Len(cbLog') = Len(cbLog) + 1]_vars

\* the backend holds a session of u1 whose profile query failed: login has
\* returned a failure and the callback was invoked with null
C30_Witness ==
  /\ svc.op = "login"
  /\ svc.lookup = "failed"
  /\ backendSession = "u1"
  /\ \E i \in 1..Len(cbLog) : cbLog[i].lookup = "failed"
  /\ \E i \in 1..Len(cbLog) : cbLog[i].lookup = "ok"

====
